---- MODULE Spec2Model ----
(***************************************************************************)
(* The gender dashboard of app.py as a state machine.  The script runs     *)
(* top to bottom once per viewer interaction: every action below changes   *)
(* one sidebar widget and then re-runs the whole script, recomputing every *)
(* derived table from the cached data frame df.                            *)
(*                                                                         *)
(* Data frames are sequences of records (one record per row, one field per *)
(* column).  A quotient of two integer columns is kept as the value the    *)
(* float division yields: a finite quotient num/den, NaN (0/0) or          *)
(* +infinity (x/0 with x > 0); quotients are exact, float rounding is not  *)
(* represented.                                                            *)
(***************************************************************************)
EXTENDS Integers, Sequences, FiniteSets, TLC

VARIABLES
    csv,             \* the rows of spec_gender_counts_2019_2023.csv on disk
    df,              \* the cached frame returned by load_data()
    years,           \* multiselect "Select year(s)"
    specs,           \* multiselect "Select specialisation(s)"
    view_mode,       \* radio "View mode"
    palette_source,  \* selectbox "Palette source"
    use_colorblind,  \* checkbox "Use colorblind-friendly palette (Okabe-Ito)"
    picks,           \* the three colour pickers <<Female, Male, Diverse>>
    filtered,        \* df[mask].copy() with the three _pct columns
    total_headcount, total_female, total_male, total_diverse,
    female_share,    \* total_female / total_headcount, shown as a metric
    male_share,      \* total_male / total_headcount, shown as a metric
    raised,          \* the exception that ended the run, "none" if it completed
    melted_agg,      \* yearly_agg.melt(...)
    colours,         \* <<female_col, male_col, diverse_col>> of the HTML legend
    color_scale,     \* the alt.Scale handed to every chart
    year_region,     \* the first chart region: pie or stacked bar
    melted_spec,     \* spec_agg.melt(...)
    melted_pct,      \* spec_pct.melt(...) with the _pct suffix removed
    melted           \* the data of the "Stacked gender counts" chart

widgets == <<years, specs, view_mode, palette_source, use_colorblind, picks>>
outputs == <<filtered, total_headcount, total_female, total_male, total_diverse,
             female_share, male_share, raised, melted_agg, colours, color_scale,
             year_region, melted_spec, melted_pct, melted>>
vars == <<csv, df, widgets, outputs>>

---------------------------------------------------------------------------
(* Bounds and input domains *)

MaxRows == 2

YearValues == {2019, 2020}
SpecValues == {"Civil", "Mech"}

\* <<Female, Male, Diverse, Total_headcount>> of a row.  The file is not
\* validated, so Total_headcount need not be the sum of the three counts.
CountSamples ==
    { <<0, 0, 0, 0>>, <<1, 0, 0, 0>>, <<1, 2, 0, 3>>, <<0, 1, 2, 3>>, <<2, 1, 1, 5>> }

Columns == {"Year", "Specialisation", "Female", "Male", "Diverse", "Total_headcount"}
Genders == <<"Female", "Male", "Diverse">>

MkRow(y, s, c) ==
    [Year |-> y, Specialisation |-> s, Female |-> c[1], Male |-> c[2],
     Diverse |-> c[3], Total_headcount |-> c[4]]

Rows == {MkRow(y, s, c) : y \in YearValues, s \in SpecValues, c \in CountSamples}
UIRows == {MkRow(y, s, <<1, 2, 0, 3>>) : y \in YearValues, s \in SpecValues}

\* the file holds at least one data row: read_csv infers the int64 columns
\* that the sums and quotients below work on from the rows
SeqsUpTo(S, n) == UNION {[1..k -> S] : k \in 1..n}

ExampleTable ==
    << MkRow(2019, "Civil", <<10, 30, 2, 42>>),
       MkRow(2020, "Civil", <<12, 28, 3, 43>>) >>

Tables == SeqsUpTo(Rows, MaxRows) \cup {ExampleTable}
UITables == SeqsUpTo(UIRows, MaxRows) \cup {ExampleTable}

---------------------------------------------------------------------------
(* Frames *)

Range(s) == {s[i] : i \in DOMAIN s}

RECURSIVE SumCol(_, _)
\* frame[col].sum(): 0 on an empty frame
SumCol(frame, col) ==
    IF frame = <<>> THEN 0 ELSE frame[1][col] + SumCol(Tail(frame), col)

RECURSIVE Flatten(_)
Flatten(ss) == IF ss = <<>> THEN <<>> ELSE ss[1] \o Flatten(Tail(ss))

\* load_data(): the frame read from the file
load_data(file) == file

\* sorted(df[col].unique()): the options (and the default) of a multiselect
Options(frame, col) == {frame[i][col] : i \in DOMAIN frame}

\* IEEE division of an int64 Series by another, elementwise
NaN == [kind |-> "nan", num |-> 0, den |-> 0]
Inf == [kind |-> "inf", num |-> 0, den |-> 0]
Divide(a, b) ==
    IF b # 0 THEN [kind |-> "finite", num |-> a, den |-> b]
    ELSE IF a = 0 THEN NaN ELSE Inf

PyIntDivide(a, b) ==
    IF b # 0 THEN [kind |-> "finite", num |-> a, den |-> b]
    ELSE [kind |-> "ZeroDivisionError", num |-> 0, den |-> 0]
\* numpy.int64 / numpy.int64 of the two metrics: a warning, never an exception
ScalarDivide(a, b) == Divide(a, b)

---------------------------------------------------------------------------
(* Filter and derivation: lines 41-58 *)

\* frame[col].isin(values): the boolean mask
Isin(frame, col, values) == [i \in DOMAIN frame |-> frame[i][col] \in values]

RECURSIVE BoolIndex(_, _)
\* frame[mask]: the rows whose mask is true, in the order of the frame
BoolIndex(frame, mask) ==
    IF frame = <<>> THEN <<>>
    ELSE (IF mask[1] THEN <<frame[1]>> ELSE <<>>)
         \o BoolIndex(Tail(frame), Tail(mask))

FilterYearsOnly(frame, ys, ss) == BoolIndex(frame, Isin(frame, "Year", ys))
\* df[df["Year"].isin(years) & df["Specialisation"].isin(specs)]
Filter(frame, ys, ss) ==
    LET inYear == Isin(frame, "Year", ys)
        inSpec == Isin(frame, "Specialisation", ss)
    IN  BoolIndex(frame, [i \in DOMAIN frame |-> inYear[i] /\ inSpec[i]])

\* filtered["X_pct"] = filtered["X"] / filtered["Total_headcount"], per row
WithPct(r) ==
    r @@ ("Female_pct" :> Divide(r.Female, r.Total_headcount))
      @@ ("Male_pct" :> Divide(r.Male, r.Total_headcount))
      @@ ("Diverse_pct" :> Divide(r.Diverse, r.Total_headcount))

Derive(frame) == [i \in DOMAIN frame |-> WithPct(frame[i])]

TotalHeadcountFromGenders(frame) ==
    SumCol(frame, "Female") + SumCol(frame, "Male") + SumCol(frame, "Diverse")
\* filtered["Total_headcount"].sum()
TotalHeadcount(frame) == SumCol(frame, "Total_headcount")

---------------------------------------------------------------------------
(* Aggregation: groupby(...).sum() and melt *)

RECURSIVE SortInts(_)
SortInts(S) ==
    IF S = {} THEN <<>>
    ELSE LET m == CHOOSE x \in S : \A y \in S : x <= y
         IN  <<m>> \o SortInts(S \ {m})

\* the specialisation names in string order
Alphabetical == <<"Civil", "Mech">>
SortStrings(S) == SelectSeq(Alphabetical, LAMBDA s : s \in S)

\* groupby sorts its keys
GroupKeys(frame, key) ==
    IF key = "Year" THEN SortInts(Options(frame, key))
    ELSE SortStrings(Options(frame, key))

Group(frame, key, k) == SelectSeq(frame, LAMBDA r : r[key] = k)

GroupFirst(frame, key) ==
    LET ks == GroupKeys(frame, key)
    IN  [i \in DOMAIN ks |->
            (key :> ks[i]) @@
            [g \in Range(Genders) |-> Group(frame, key, ks[i])[1][g]]]
\* frame.groupby(key, as_index=False)[["Female", "Male", "Diverse"]].sum()
GroupBySum(frame, key) ==
    LET ks == GroupKeys(frame, key)
    IN  [i \in DOMAIN ks |->
            (key :> ks[i]) @@
            [g \in Range(Genders) |-> SumCol(Group(frame, key, ks[i]), g)]]

\* frame.melt(id_vars, value_vars, var_name, value_name): one block of rows
\* per value column, in the order of value_vars
Melt(frame, id_vars, value_vars, var_name, value_name) ==
    Flatten([v \in DOMAIN value_vars |->
        [i \in DOMAIN frame |->
            [f \in id_vars \cup {var_name, value_name} |->
                IF f \in id_vars THEN frame[i][f]
                ELSE IF f = var_name THEN value_vars[v]
                ELSE frame[i][value_vars[v]]]]])

GendersOnlyTotal(r) == r.Female + r.Male
\* spec_pct["Total"] = Female + Male + Diverse
GroupTotal(r) == r.Female + r.Male + r.Diverse

\* spec_pct: spec_agg with Total and the three shares of it
SpecPct(spec_agg) ==
    [i \in DOMAIN spec_agg |->
        LET r == spec_agg[i]
            t == GroupTotal(r)
        IN  r @@ ("Total" :> t)
              @@ ("Female_pct" :> Divide(r.Female, t))
              @@ ("Male_pct" :> Divide(r.Male, t))
              @@ ("Diverse_pct" :> Divide(r.Diverse, t))]

PctColumns == <<"Female_pct", "Male_pct", "Diverse_pct">>

\* str.replace("_pct", "") on the Gender column
StrReplacePct(g) ==
    CASE g = "Female_pct" -> "Female"
      [] g = "Male_pct" -> "Male"
      [] g = "Diverse_pct" -> "Diverse"
      [] OTHER -> g

MeltedPctWithTotal(spec_pct) ==
    LET m == Melt(spec_pct, {"Specialisation", "Total"}, PctColumns, "Gender", "Percentage")
    IN  [i \in DOMAIN m |-> [m[i] EXCEPT !.Gender = StrReplacePct(@)]]
\* spec_pct.melt(id_vars=["Specialisation"], ...) and the suffix removal
MeltedPct(spec_pct) ==
    LET m == Melt(spec_pct, {"Specialisation"}, PctColumns, "Gender", "Percentage")
    IN  [i \in DOMAIN m |-> [m[i] EXCEPT !.Gender = StrReplacePct(@)]]

\* the data of the "Stacked gender counts" chart, lines 210-243
ViewModeData(frame, vm) ==
    IF vm = "By specialisation"
    THEN Melt(frame, {"Year", "Specialisation", "Total_headcount"}, Genders, "Gender", "Count")
    ELSE Melt(GroupBySum(frame, "Year"), {"Year"}, Genders, "Gender", "Count")

---------------------------------------------------------------------------
(* Colour configuration: lines 69-108 *)

PaletteSources ==
    {"Default (red/blue/lightblue)", "ColorBrewer (Paired)",
     "Okabe-Ito (Colorblind-friendly)", "Custom"}
ViewModes == {"By specialisation", "Year summary"}

OkabeIto == <<"#E69F00", "#0072B2", "#009E73">>
DefaultColours == <<"#FF6B6B", "#4169E1", "#95B8D1">>
PairedColours == <<"#a6cee3", "#1f78b4", "#b2df8a">>

\* the values a colour picker may hold: its default or another colour
PickerChoices(i) == {DefaultColours[i], "#000000"}

\* the colour pickers are created only on the Custom branch (lines 105-107);
\* a picker that a run does not create starts again from its default
PickersShown(ps, cb) == ~cb /\ ps = "Custom"

RangeScale(cols) == [domain |-> Genders, range |-> cols, scheme |-> "none"]
SchemeScale(name) == [domain |-> Genders, range |-> <<>>, scheme |-> name]

ResolvePaletteFirst(ps, cb, pk) ==
    IF ps = "Default (red/blue/lightblue)"
    THEN [cols |-> DefaultColours, scale |-> RangeScale(DefaultColours)]
    ELSE IF ps = "ColorBrewer (Paired)"
    THEN [cols |-> PairedColours, scale |-> SchemeScale("paired")]
    ELSE IF ps = "Custom" /\ ~cb
    THEN [cols |-> pk, scale |-> RangeScale(pk)]
    ELSE [cols |-> OkabeIto, scale |-> RangeScale(OkabeIto)]
\* female_col, male_col, diverse_col and color_scale
Resolve(ps, cb, pk) ==
    IF cb
    THEN [cols |-> OkabeIto, scale |-> RangeScale(OkabeIto)]
    ELSE IF ps = "Default (red/blue/lightblue)"
    THEN [cols |-> DefaultColours, scale |-> RangeScale(DefaultColours)]
    ELSE IF ps = "ColorBrewer (Paired)"
    THEN [cols |-> PairedColours, scale |-> SchemeScale("paired")]
    ELSE IF ps = "Okabe-Ito (Colorblind-friendly)"
    THEN [cols |-> OkabeIto, scale |-> RangeScale(OkabeIto)]
    ELSE [cols |-> pk, scale |-> RangeScale(pk)]

---------------------------------------------------------------------------
(* The first chart region: lines 110-136 *)

SinglePeriodUpToOne(ys) == IF Cardinality(ys) <= 1 THEN "pie" ELSE "stacked_bar"
\* if len(years) == 1
PresentationPath(ys) == IF Cardinality(ys) = 1 THEN "pie" ELSE "stacked_bar"

PieData(f, m, d) ==
    << [Gender |-> "Female", Count |-> f],
       [Gender |-> "Male", Count |-> m],
       [Gender |-> "Diverse", Count |-> d] >>

---------------------------------------------------------------------------
(* One run of the script *)

InPlaceFilter(cache, sel) == [i \in DOMAIN sel |-> [c \in Columns |-> sel[i][c]]]
\* the cached frame after a run: filtered is a copy (line 41), the column
\* assignments of lines 44-46 write to the copy
CacheAfterRun(cache, sel) == cache

\* lines 41-46
Filtered(d, ys, ss) == Derive(Filter(d, ys, ss))

\* raised by the two share metrics (lines 56-57), if by any
Raised(fs, ms) ==
    IF "ZeroDivisionError" \in {fs.kind, ms.kind} THEN "ZeroDivisionError" ELSE "none"

\* lines 61-67
MeltedAgg(f) == Melt(GroupBySum(f, "Year"), {"Year"}, Genders, "Gender", "Count")

\* lines 110-136: the pie of the three totals, or the stacked bar of melted_agg
YearRegion(ys, tf, tm, td, magg) ==
    LET path == PresentationPath(ys)
    IN  [kind |-> path, data |-> IF path = "pie" THEN PieData(tf, tm, td) ELSE magg]

\* lines 165-171
MeltedSpec(f) ==
    Melt(GroupBySum(f, "Specialisation"), {"Specialisation"}, Genders, "Gender", "Count")

\* everything one run of the script shows, from the cached frame and the widgets
Script(d, ys, ss, vm, ps, cb, pk) ==
    LET f == Filtered(d, ys, ss)
        th == TotalHeadcount(f)
        tf == SumCol(f, "Female")
        tm == SumCol(f, "Male")
        td == SumCol(f, "Diverse")
        fs == ScalarDivide(tf, th)
        ms == ScalarDivide(tm, th)
        magg == MeltedAgg(f)
        col == Resolve(ps, cb, pk)
    IN  [filtered |-> f,
         total_headcount |-> th, total_female |-> tf,
         total_male |-> tm, total_diverse |-> td,
         female_share |-> fs, male_share |-> ms,
         raised |-> Raised(fs, ms),
         melted_agg |-> magg,
         colours |-> col.cols, color_scale |-> col.scale,
         year_region |-> YearRegion(ys, tf, tm, td, magg),
         melted_spec |-> MeltedSpec(f),
         melted_pct |-> MeltedPct(SpecPct(GroupBySum(f, "Specialisation"))),
         melted |-> ViewModeData(f, vm)]

\* the first run of the script, top to bottom
Displays ==
    /\ filtered = Filtered(df, years, specs)
    /\ total_headcount = TotalHeadcount(filtered)
    /\ total_female = SumCol(filtered, "Female")
    /\ total_male = SumCol(filtered, "Male")
    /\ total_diverse = SumCol(filtered, "Diverse")
    /\ female_share = ScalarDivide(total_female, total_headcount)
    /\ male_share = ScalarDivide(total_male, total_headcount)
    /\ raised = Raised(female_share, male_share)
    /\ melted_agg = MeltedAgg(filtered)
    /\ colours = Resolve(palette_source, use_colorblind, picks).cols
    /\ color_scale = Resolve(palette_source, use_colorblind, picks).scale
    /\ year_region = YearRegion(years, total_female, total_male, total_diverse, melted_agg)
    /\ melted_spec = MeltedSpec(filtered)
    /\ melted_pct = MeltedPct(SpecPct(GroupBySum(filtered, "Specialisation")))
    /\ melted = ViewModeData(filtered, view_mode)

\* the rerun that follows every widget change, top to bottom
Rerun ==
    /\ filtered' = Filtered(df, years', specs')
    /\ df' = CacheAfterRun(df, filtered')
    /\ total_headcount' = TotalHeadcount(filtered')
    /\ total_female' = SumCol(filtered', "Female")
    /\ total_male' = SumCol(filtered', "Male")
    /\ total_diverse' = SumCol(filtered', "Diverse")
    /\ female_share' = ScalarDivide(total_female', total_headcount')
    /\ male_share' = ScalarDivide(total_male', total_headcount')
    /\ raised' = Raised(female_share', male_share')
    /\ melted_agg' = MeltedAgg(filtered')
    /\ colours' = Resolve(palette_source', use_colorblind', picks').cols
    /\ color_scale' = Resolve(palette_source', use_colorblind', picks').scale
    /\ year_region' = YearRegion(years', total_female', total_male', total_diverse',
                                 melted_agg')
    /\ melted_spec' = MeltedSpec(filtered')
    /\ melted_pct' = MeltedPct(SpecPct(GroupBySum(filtered', "Specialisation")))
    /\ melted' = ViewModeData(filtered', view_mode')

\* the first run: the file is read, every widget holds its default
FirstRun(tables) ==
    /\ csv \in tables
    /\ df = load_data(csv)
    /\ years = Options(df, "Year")
    /\ specs = Options(df, "Specialisation")
    /\ view_mode = "By specialisation"
    /\ palette_source = "Default (red/blue/lightblue)"
    /\ use_colorblind = FALSE
    /\ picks = DefaultColours
    /\ Displays

Init == FirstRun(Tables)
InitUI == FirstRun(UITables)

---------------------------------------------------------------------------
(* Viewer interactions *)

SelectYears ==
    \E ys \in SUBSET Options(df, "Year") :
        /\ ys # years
        /\ years' = ys
        /\ UNCHANGED <<csv, specs, view_mode, palette_source, use_colorblind, picks>>
        /\ Rerun

SelectSpecs ==
    \E ss \in SUBSET Options(df, "Specialisation") :
        /\ ss # specs
        /\ specs' = ss
        /\ UNCHANGED <<csv, years, view_mode, palette_source, use_colorblind, picks>>
        /\ Rerun

SetViewMode ==
    \E vm \in ViewModes :
        /\ vm # view_mode
        /\ view_mode' = vm
        /\ UNCHANGED <<csv, years, specs, palette_source, use_colorblind, picks>>
        /\ Rerun

SetPaletteSource ==
    \E ps \in PaletteSources :
        /\ ps # palette_source
        /\ palette_source' = ps
        /\ picks' = IF PickersShown(palette_source, use_colorblind)
                       /\ PickersShown(ps, use_colorblind)
                    THEN picks ELSE DefaultColours
        /\ UNCHANGED <<csv, years, specs, view_mode, use_colorblind>>
        /\ Rerun

ToggleColorblind ==
    /\ use_colorblind' = ~use_colorblind
    /\ picks' = DefaultColours
    /\ UNCHANGED <<csv, years, specs, view_mode, palette_source>>
    /\ Rerun

PickColour ==
    /\ PickersShown(palette_source, use_colorblind)
    /\ \E i \in DOMAIN picks : \E c \in PickerChoices(i) :
        /\ c # picks[i]
        /\ picks' = [picks EXCEPT ![i] = c]
    /\ UNCHANGED <<csv, years, specs, view_mode, palette_source, use_colorblind>>
    /\ Rerun

Next == SelectYears \/ SelectSpecs

Spec == Init /\ [][Next]_vars

NextUI ==
    \/ SelectYears
    \/ SelectSpecs
    \/ SetViewMode
    \/ SetPaletteSource
    \/ ToggleColorblind
    \/ PickColour

SpecUI == InitUI /\ [][NextUI]_vars

---------------------------------------------------------------------------
(* Properties.  They restate what the tables must hold from the rows of df *)
(* and the widgets, without the operators of the script.                   *)

\* the positions of the rows of df that the selection keeps
Matching ==
    {i \in DOMAIN df : df[i].Year \in years /\ df[i].Specialisation \in specs}

BaseCols(r) == [c \in Columns |-> r[c]]

RECURSIVE SetSum(_, _, _)
\* the sum of column col of frame over the positions in I
SetSum(frame, I, col) ==
    IF I = {} THEN 0
    ELSE LET i == CHOOSE x \in I : TRUE
         IN  frame[i][col] + SetSum(frame, I \ {i}, col)

\* the counts of the three genders summed over the filtered rows of one key
KeyTotal(key, k) ==
    LET I == {i \in DOMAIN filtered : filtered[i][key] = k}
    IN  SetSum(filtered, I, "Female") + SetSum(filtered, I, "Male")
        + SetSum(filtered, I, "Diverse")

AllPicks == PickerChoices(1) \X PickerChoices(2) \X PickerChoices(3)

\* C1: the filtered table holds exactly the rows of df whose Year and
\* Specialisation are both selected, each once, in the row order of df.
C1_FilterExact ==
    /\ Len(filtered) = Cardinality(Matching)
    /\ \A i \in Matching :
          BaseCols(filtered[Cardinality({j \in Matching : j <= i})]) = df[i]

C1_Witness ==
    /\ Len(df) = 2
    /\ Matching = {2}
    /\ Len(filtered) = 1
    /\ BaseCols(filtered[1]) = df[2]

C3_ZeroDenominatorUndefined ==
    /\ raised = "none"
    /\ \A i \in DOMAIN filtered :
          filtered[i].Total_headcount = 0 =>
              /\ filtered[i].Female_pct = NaN
              /\ filtered[i].Male_pct = NaN
              /\ filtered[i].Diverse_pct = NaN
    /\ \A i \in DOMAIN melted_pct :
          KeyTotal("Specialisation", melted_pct[i].Specialisation) = 0 =>
              melted_pct[i].Percentage = NaN
    /\ total_headcount = 0 => (female_share = NaN /\ male_share = NaN)

\* C4: the four summary totals are the column sums over the filtered rows (85,
\* 22, 58, 5 on the example table) and a recomputation gives them again.
C4_SummaryTotals ==
    /\ total_headcount = SetSum(df, Matching, "Total_headcount")
    /\ total_female = SetSum(df, Matching, "Female")
    /\ total_male = SetSum(df, Matching, "Male")
    /\ total_diverse = SetSum(df, Matching, "Diverse")
    /\ (df = ExampleTable /\ years = {2019, 2020} /\ specs = {"Civil"}) =>
          <<total_headcount, total_female, total_male, total_diverse>> = <<85, 22, 58, 5>>
    /\ LET f == Filtered(df, years, specs)
       IN  <<total_headcount, total_female, total_male, total_diverse>>
           = <<TotalHeadcount(f), SumCol(f, "Female"), SumCol(f, "Male"), SumCol(f, "Diverse")>>

C4_Witness ==
    /\ df = ExampleTable
    /\ years = {2019, 2020}
    /\ specs = {"Civil"}
    /\ total_headcount = 85
    /\ total_female = 22

\* a long-form count aggregate keyed by key conserves the counts of filtered
\* and has one triple per key and gender
Conserves(m, key) ==
    LET keys == {filtered[i][key] : i \in DOMAIN filtered}
    IN  /\ \A g \in Range(Genders) :
              SetSum(m, {i \in DOMAIN m : m[i].Gender = g}, "Count")
              = SetSum(filtered, DOMAIN filtered, g)
        /\ \A k \in keys : \A g \in Range(Genders) :
              Cardinality({i \in DOMAIN m : m[i][key] = k /\ m[i].Gender = g}) = 1
        /\ Len(m) = 3 * Cardinality(keys)

\* C5: the by-year and the by-specialisation count aggregates conserve each
\* gender's count and hold exactly one triple per key of filtered and gender.
C5_Conservation ==
    /\ Conserves(melted_agg, "Year")
    /\ Conserves(melted_spec, "Specialisation")

C5_Witness ==
    /\ Len(filtered) = 2
    /\ filtered[1].Specialisation = filtered[2].Specialisation
    /\ filtered[1].Year # filtered[2].Year
    /\ filtered[1].Female > 0
    /\ filtered[2].Female > 0
    /\ Len(melted_spec) = 3
    /\ Len(melted_agg) = 6

\* C6: with the colorblind override on, the legend colours and the chart scale
\* are the Okabe-Ito triple for every palette source and every custom colour,
\* and the mapping is the one its three inputs resolve to.
C6_ColorblindOverride ==
    /\ use_colorblind =>
          /\ colours = <<"#E69F00", "#0072B2", "#009E73">>
          /\ color_scale.range = <<"#E69F00", "#0072B2", "#009E73">>
    /\ \A ps \in PaletteSources : \A pk \in AllPicks :
          Resolve(ps, TRUE, pk).cols = <<"#E69F00", "#0072B2", "#009E73">>
    /\ colours = Resolve(palette_source, use_colorblind, picks).cols
    /\ color_scale = Resolve(palette_source, use_colorblind, picks).scale

C6_Witness ==
    /\ use_colorblind
    /\ palette_source = "Custom"
    /\ colours = OkabeIto

\* C7: the first region is the pie exactly when one year is selected, whatever
\* the other widgets and the rows are.
C7_PathByYearCount ==
    year_region.kind = IF Cardinality(years) = 1 THEN "pie" ELSE "stacked_bar"

C7_Witness ==
    /\ Cardinality(years) = 1
    /\ specs = {}
    /\ view_mode = "Year summary"
    /\ use_colorblind
    /\ year_region.kind = "pie"

\* C8 as stated: every row of the two specialisation-keyed aggregates carries
\* the total count of its specialisation.
C8_TotalAlongsideKey ==
    /\ \A i \in DOMAIN melted_spec :
          /\ "Total" \in DOMAIN melted_spec[i]
          /\ melted_spec[i].Total = KeyTotal("Specialisation", melted_spec[i].Specialisation)
    /\ \A i \in DOMAIN melted_pct :
          /\ "Total" \in DOMAIN melted_pct[i]
          /\ melted_pct[i].Total = KeyTotal("Specialisation", melted_pct[i].Specialisation)

\* C8 amended: the two specialisation-keyed aggregates carry the key, the gender
\* and the value only; the total of a key is the sum of its three Count values.
C8_TriplesOnly ==
    /\ \A i \in DOMAIN melted_spec :
          DOMAIN melted_spec[i] = {"Specialisation", "Gender", "Count"}
    /\ \A i \in DOMAIN melted_pct :
          DOMAIN melted_pct[i] = {"Specialisation", "Gender", "Percentage"}
    /\ \A k \in {filtered[i].Specialisation : i \in DOMAIN filtered} :
          SetSum(melted_spec, {i \in DOMAIN melted_spec : melted_spec[i].Specialisation = k},
                 "Count")
          = KeyTotal("Specialisation", k)

C8_Witness ==
    /\ melted_spec # <<>>
    /\ melted_pct # <<>>
    /\ \E i \in DOMAIN filtered :
          KeyTotal("Specialisation", filtered[i].Specialisation) > 1

\* the share of gender g in specialisation k in melted_pct
Share(k, g) ==
    LET i == CHOOSE j \in DOMAIN melted_pct :
                 melted_pct[j].Specialisation = k /\ melted_pct[j].Gender = g
    IN  melted_pct[i].Percentage

\* three finite quotients that add up to 1
SumToOne(a, b, c) ==
    /\ {a.kind, b.kind, c.kind} = {"finite"}
    /\ a.num * b.den * c.den + b.num * a.den * c.den + c.num * a.den * b.den
       = a.den * b.den * c.den

\* C9: for every specialisation of filtered whose three counts do not sum to 0,
\* the three shares in melted_pct are the counts over that sum and add up to 1,
\* whether or not Total_headcount is that sum.
C9_SharesSumToOne ==
    \A k \in {filtered[i].Specialisation : i \in DOMAIN filtered} :
        LET t == KeyTotal("Specialisation", k)
            I == {i \in DOMAIN filtered : filtered[i].Specialisation = k}
        IN  t # 0 =>
               /\ SumToOne(Share(k, "Female"), Share(k, "Male"), Share(k, "Diverse"))
               /\ \A g \in Range(Genders) :
                     Share(k, g) = [kind |-> "finite",
                                    num |-> SetSum(filtered, I, g), den |-> t]

C9_Witness ==
    \E k \in {filtered[i].Specialisation : i \in DOMAIN filtered} :
        LET I == {i \in DOMAIN filtered : filtered[i].Specialisation = k}
        IN  /\ Cardinality(I) = 2
            /\ KeyTotal("Specialisation", k) # 0
            /\ SetSum(filtered, I, "Total_headcount") # KeyTotal("Specialisation", k)
            /\ SumToOne(Share(k, "Female"), Share(k, "Male"), Share(k, "Diverse"))

\* C10: after any interactions the cached frame is the frame that was loaded,
\* with its six columns, and everything shown is what one run of the script
\* on the loaded frame and the current widgets gives.
C10_CacheUntouched ==
    /\ df = load_data(csv)
    /\ \A i \in DOMAIN df : DOMAIN df[i] = Columns
    /\ LET o == Script(load_data(csv), years, specs, view_mode, palette_source,
                       use_colorblind, picks)
       IN  outputs = <<o.filtered, o.total_headcount, o.total_female, o.total_male,
                       o.total_diverse, o.female_share, o.male_share, o.raised,
                       o.melted_agg, o.colours, o.color_scale, o.year_region,
                       o.melted_spec, o.melted_pct, o.melted>>

C10_Witness ==
    /\ Len(csv) = 2
    /\ Len(filtered) = 1
    /\ years # Options(csv, "Year")
    /\ view_mode = "Year summary"
    /\ palette_source = "Custom"
    /\ picks # DefaultColours
    /\ df = csv

====
